---- MODULE Spec2Model ----
(***************************************************************************)
(* Model of src/src/utils/parseDataText.ts: the parser that turns a block  *)
(* of comma/tab delimited (or single column) text into a SequenceData.     *)
(*                                                                         *)
(* A JavaScript string is a sequence of one-character strings, so that     *)
(* trimming, splitting and the two regular expressions are computed on     *)
(* the characters.  A JavaScript number is an exact decimal m * 10^e (or   *)
(* an infinity / NaN); an instant (Date) is the pair <<day, ms>> standing  *)
(* for day * 86400000 + ms milliseconds since the epoch.                   *)
(***************************************************************************)
EXTENDS Integers, Sequences, FiniteSets, TLC

VARIABLES
    text,     \* the string handed to parseDataText
    fields,   \* per ISO line typed: the calendar fields it was written from
    pc,       \* "input" while the text is being written, "done" after the call
    result    \* what parseDataText returned or threw

vars == <<text, fields, pc, result>>

----------------------------------------------------------------------------
(* Characters and strings *)

Digits == {"0", "1", "2", "3", "4", "5", "6", "7", "8", "9"}

DigitVal(c) ==
    CASE c = "0" -> 0 [] c = "1" -> 1 [] c = "2" -> 2 [] c = "3" -> 3
      [] c = "4" -> 4 [] c = "5" -> 5 [] c = "6" -> 6 [] c = "7" -> 7
      [] c = "8" -> 8 [] c = "9" -> 9

\* String.prototype.trim strips white space and line terminators
WhiteSpace == {" ", "\t", "\n", "\r"}

RECURSIVE TrimStart(_)
TrimStart(s) ==
    IF s # <<>> /\ Head(s) \in WhiteSpace THEN TrimStart(Tail(s)) ELSE s

RECURSIVE TrimEnd(_)
TrimEnd(s) ==
    IF s # <<>> /\ s[Len(s)] \in WhiteSpace
    THEN TrimEnd(SubSeq(s, 1, Len(s) - 1))
    ELSE s

trim(s) == TrimEnd(TrimStart(s))

includes(s, c) == \E i \in 1..Len(s) : s[i] = c

\* s.replace(/\r\n/g, "\n")
RECURSIVE ReplaceCRLF(_)
ReplaceCRLF(s) ==
    IF s = <<>> THEN <<>>
    ELSE IF Len(s) >= 2 /\ s[1] = "\r" /\ s[2] = "\n"
         THEN <<"\n">> \o ReplaceCRLF(SubSeq(s, 3, Len(s)))
         ELSE <<Head(s)>> \o ReplaceCRLF(Tail(s))

\* s.replace(/\r/g, "\n")
ReplaceCR(s) == [i \in 1..Len(s) |-> IF s[i] = "\r" THEN "\n" ELSE s[i]]

\* s.split(d) for a one-character separator d
RECURSIVE split(_, _)
split(s, d) ==
    IF ~includes(s, d) THEN <<s>>
    ELSE LET i == CHOOSE k \in 1..Len(s) :
                      s[k] = d /\ \A j \in 1..(k - 1) : s[j] # d
         IN  <<SubSeq(s, 1, i - 1)>> \o split(SubSeq(s, i + 1, Len(s)), d)

RECURSIVE SelectNonEmpty(_)
SelectNonEmpty(ls) ==
    IF ls = <<>> THEN <<>>
    ELSE IF Len(Head(ls)) > 0
         THEN <<Head(ls)>> \o SelectNonEmpty(Tail(ls))
         ELSE SelectNonEmpty(Tail(ls))

\* the trimmed non-blank lines of the text
Lines(t) ==
    LET raw == split(ReplaceCR(ReplaceCRLF(t)), "\n")
    IN  SelectNonEmpty([i \in 1..Len(raw) |-> trim(raw[i])])

----------------------------------------------------------------------------
(* Numbers *)

Finite(m, e) == [cls |-> "finite", m |-> m, e |-> e]
Infinite(sign) == [cls |-> "inf", m |-> sign, e |-> 0]
NaN == [cls |-> "nan", m |-> 0, e |-> 0]

NumberIsFinite(n) == n.cls = "finite"

RECURSIVE Pow10(_)
Pow10(k) == IF k <= 0 THEN 1 ELSE 10 * Pow10(k - 1)

RECURSIVE NumDigits(_)
NumDigits(m) == IF m < 10 THEN 1 ELSE 1 + NumDigits(m \div 10)

\* m * 10^e with the trailing zeros of m moved into e
RECURSIVE Normalize(_, _)
Normalize(m, e) ==
    IF m = 0 THEN Finite(0, 0)
    ELSE IF m % 10 = 0 THEN Normalize(m \div 10, e + 1)
    ELSE Finite(m, e)

\* the value of a string of digits
RECURSIVE DigitsVal(_)
DigitsVal(s) ==
    IF s = <<>> THEN 0
    ELSE 10 * DigitsVal(SubSeq(s, 1, Len(s) - 1)) + DigitVal(s[Len(s)])

\* one step of the automaton of
\* NUM_RE = /^[+-]?(?:\d+\.?\d*|\.\d+)(?:[eE][+-]?\d+)?$/
\* 0 start, 1 sign, 2 integer digits, 3 digits and a point (and fraction),
\* 4 leading point, 5 fraction after a leading point, 6 e, 7 exponent sign,
\* 8 exponent digits, 9 no match
NumReStep(q, c) ==
    CASE q = 0 -> (IF c \in {"+", "-"} THEN 1 ELSE IF c \in Digits THEN 2
                   ELSE IF c = "." THEN 4 ELSE 9)
      [] q = 1 -> (IF c \in Digits THEN 2 ELSE IF c = "." THEN 4 ELSE 9)
      [] q = 2 -> (IF c \in Digits THEN 2 ELSE IF c = "." THEN 3
                   ELSE IF c \in {"e", "E"} THEN 6 ELSE 9)
      [] q = 3 -> (IF c \in Digits THEN 3 ELSE IF c \in {"e", "E"} THEN 6 ELSE 9)
      [] q = 4 -> (IF c \in Digits THEN 5 ELSE 9)
      [] q = 5 -> (IF c \in Digits THEN 5 ELSE IF c \in {"e", "E"} THEN 6 ELSE 9)
      [] q = 6 -> (IF c \in {"+", "-"} THEN 7 ELSE IF c \in Digits THEN 8 ELSE 9)
      [] q = 7 -> (IF c \in Digits THEN 8 ELSE 9)
      [] q = 8 -> (IF c \in Digits THEN 8 ELSE 9)
      [] OTHER -> 9

RECURSIVE NumReRun(_, _)
NumReRun(s, q) ==
    IF s = <<>> THEN q ELSE NumReRun(Tail(s), NumReStep(q, Head(s)))

NUM_RE(s) == NumReRun(s, 0) \in {2, 3, 5, 8}

\* the first position of s holding a character of cs, or Len(s) + 1
IndexOfAny(s, cs) ==
    IF \E i \in 1..Len(s) : s[i] \in cs
    THEN CHOOSE i \in 1..Len(s) : s[i] \in cs /\ \A j \in 1..(i - 1) : s[j] \notin cs
    ELSE Len(s) + 1

\* the double nearest to sign * m * 10^e, as far as the model tells doubles
\* apart: beyond 1.7976931348623157e308 it is an infinity, below 5e-324 zero
ToDouble(sign, m, e) ==
    LET n == Normalize(m, e)
        order == NumDigits(n.m) + n.e - 1
        lead == n.m * Pow10(9 - NumDigits(n.m))
    IN  IF n.m = 0 THEN Finite(0, 0)
        ELSE IF order > 308 \/ (order = 308 /\ lead > 179769313)
        THEN Infinite(sign)
        ELSE IF order < -324 THEN Finite(0, 0)
        ELSE Finite(sign * n.m, n.e)

\* the value of sign * mant * 10^exp, mant a decimal with an optional point
\* and expo the text after the e (empty when there is none)
MantissaValue(sign, int, frac, expo) ==
    LET eSign == IF expo # <<>> /\ expo[1] = "-" THEN -1 ELSE 1
        eDigits == IF expo # <<>> /\ expo[1] \in {"+", "-"} THEN Tail(expo) ELSE expo
    IN  ToDouble(sign, DigitsVal(int \o frac), eSign * DigitsVal(eDigits) - Len(frac))

UnsignedValue(sign, mant, expo) ==
    MantissaValue(sign,
                  SubSeq(mant, 1, IndexOfAny(mant, {"."}) - 1),
                  SubSeq(mant, IndexOfAny(mant, {"."}) + 1, Len(mant)),
                  expo)

SignedValue(sign, body) ==
    UnsignedValue(sign,
                  SubSeq(body, 1, IndexOfAny(body, {"e", "E"}) - 1),
                  SubSeq(body, IndexOfAny(body, {"e", "E"}) + 1, Len(body)))

\* the value of a string that matches NUM_RE
DecimalValue(s) ==
    SignedValue(IF s[1] = "-" THEN -1 ELSE 1,
                IF s[1] \in {"+", "-"} THEN Tail(s) ELSE s)

\* Number(s): the decimal literals, the infinities, the empty string; every
\* other string is NaN
Number(s) ==
    LET t == trim(s)
    IN  IF t = <<>> THEN Finite(0, 0)
        ELSE IF NUM_RE(t) THEN DecimalValue(t)
        ELSE IF t \in {<<"I", "n", "f", "i", "n", "i", "t", "y">>,
                       <<"+", "I", "n", "f", "i", "n", "i", "t", "y">>}
        THEN Infinite(1)
        ELSE IF t = <<"-", "I", "n", "f", "i", "n", "i", "t", "y">> THEN Infinite(-1)
        ELSE NaN

isFiniteNumberString(s) ==
    IF ~NUM_RE(s) THEN FALSE ELSE NumberIsFinite(Number(s))

----------------------------------------------------------------------------
(* Dates *)

Null == [null |-> TRUE, day |-> 0, ms |-> 0]

\* the Date of day * 86400000 + ms milliseconds since the epoch
DateAt(day, ms) ==
    [null |-> FALSE, day |-> day + (ms \div 86400000), ms |-> ms % 86400000]

IsDigits(s) == \A i \in 1..Len(s) : s[i] \in Digits

NoMatch == [ok |-> FALSE, Y |-> <<>>, Mo |-> <<>>, D |-> <<>>, h |-> <<>>,
            mi |-> <<>>, se |-> <<>>, ms |-> <<>>, tz |-> <<>>]

\* ^(\d{4})-(\d{2})-(\d{2})
IsoDateShape(s) ==
    /\ Len(s) >= 10
    /\ IsDigits(SubSeq(s, 1, 4)) /\ s[5] = "-"
    /\ IsDigits(SubSeq(s, 6, 7)) /\ s[8] = "-"
    /\ IsDigits(SubSeq(s, 9, 10))

\* [T\s](\d{2}):(\d{2}) at the head of r
IsoTimeShape(r) ==
    /\ Len(r) >= 6
    /\ r[1] \in ({"T"} \cup WhiteSpace)
    /\ IsDigits(SubSeq(r, 2, 3)) /\ r[4] = ":"
    /\ IsDigits(SubSeq(r, 5, 6))

\* :(\d{2}) at the head of r
IsoSecondsShape(r) == Len(r) >= 3 /\ r[1] = ":" /\ IsDigits(SubSeq(r, 2, 3))

\* how many digits \.(\d{1,3}) takes at the head of r, 0 when it does not match
IsoMsDigits(r) ==
    IF Len(r) < 2 \/ r[1] # "." \/ r[2] \notin Digits THEN 0
    ELSE IF Len(r) >= 3 /\ r[3] \in Digits
         THEN (IF Len(r) >= 4 /\ r[4] \in Digits THEN 3 ELSE 2)
         ELSE 1

\* (Z|[+-]\d{2}:\d{2})?$
IsoZoneShape(r) ==
    \/ r = <<>>
    \/ r = <<"Z">>
    \/ /\ Len(r) = 6
       /\ r[1] \in {"+", "-"}
       /\ IsDigits(SubSeq(r, 2, 3)) /\ r[4] = ":"
       /\ IsDigits(SubSeq(r, 5, 6))

\* the groups once the text after the minutes is read: se and ms the seconds
\* and fraction groups, r the text left for the zone
IsoGroups(s, se, ms, r) ==
    IF ~IsoZoneShape(r) THEN NoMatch
    ELSE [ok |-> TRUE, Y |-> SubSeq(s, 1, 4), Mo |-> SubSeq(s, 6, 7),
          D |-> SubSeq(s, 9, 10), h |-> SubSeq(s, 12, 13), mi |-> SubSeq(s, 15, 16),
          se |-> se, ms |-> ms, tz |-> r]

\* r is the text after the seconds
IsoAfterSeconds(s, se, r) ==
    IF IsoMsDigits(r) > 0
    THEN IsoGroups(s, se, SubSeq(r, 2, IsoMsDigits(r) + 1),
                   SubSeq(r, IsoMsDigits(r) + 2, Len(r)))
    ELSE IsoGroups(s, se, <<>>, r)

\* r is the text after the minutes
IsoAfterMinutes(s, r) ==
    IF IsoSecondsShape(r)
    THEN IsoAfterSeconds(s, SubSeq(r, 2, 3), SubSeq(r, 4, Len(r)))
    ELSE IsoGroups(s, <<>>, <<>>, r)

\* ISO_RE.exec(s): the groups of
\* /^(\d{4})-(\d{2})-(\d{2})(?:[T\s](\d{2}):(\d{2})(?::(\d{2})(?:\.(\d{1,3}))?)?(Z|[+-]\d{2}:\d{2})?)?$/
\* a group that took no part in the match is <<>>
ISO_RE(s) ==
    IF ~IsoDateShape(s) THEN NoMatch
    ELSE IF Len(s) = 10
    THEN [NoMatch EXCEPT !.ok = TRUE, !.Y = SubSeq(s, 1, 4),
                         !.Mo = SubSeq(s, 6, 7), !.D = SubSeq(s, 9, 10)]
    ELSE IF ~IsoTimeShape(SubSeq(s, 11, Len(s))) THEN NoMatch
    ELSE IsoAfterMinutes(s, SubSeq(s, 17, Len(s)))

\* ECMAScript DayFromYear, InLeapYear and the day within the year of the first
\* of month mn (0..11)
DayFromYear(y) ==
    365 * (y - 1970) + ((y - 1969) \div 4) - ((y - 1901) \div 100)
        + ((y - 1601) \div 400)

InLeapYear(y) == (y % 4 = 0 /\ y % 100 # 0) \/ y % 400 = 0

MonthStart(y, mn) ==
    <<0, 31, 59, 90, 120, 151, 181, 212, 243, 273, 304, 334>>[mn + 1]
        + (IF mn >= 2 /\ InLeapYear(y) THEN 1 ELSE 0)

\* ECMAScript MakeDay: months beyond 0..11 carry into the year, and the day of
\* the month counts on from the first of the month
MakeDay(year, month, date) ==
    LET ym == year + (month \div 12)
        mn == month % 12
    IN  DayFromYear(ym) + MonthStart(ym, mn) + date - 1

\* Date.UTC(year, month, day, hh, mm, ss, mss), as <<day, ms in the day>>;
\* a year of 0..99 is taken as 1900 + year
DateUTC(year, month, day, hh, mm, ss, mss) ==
    LET yr == IF 0 <= year /\ year <= 99 THEN 1900 + year ELSE year
        time == hh * 3600000 + mm * 60000 + ss * 1000 + mss
    IN  <<MakeDay(yr, month, day), time>>

\* ms.padEnd(3, "0")
RECURSIVE padEnd0(_, _)
padEnd0(s, n) == IF Len(s) >= n THEN s ELSE padEnd0(s \o <<"0">>, n)

\* new Date(ts) of the time value <<day, ms>>, null when the time value is NaN
\* (isNaN(d.getTime()): beyond 8.64e15 ms, that is 100000000 days)
DateOrNull(d) ==
    IF d.day > 100000000 \/ d.day < -100000000 THEN Null ELSE d

\* the body of parseIsoToDate after the match m
DateOfGroups(m) ==
    LET year == DigitsVal(m.Y)
        month == DigitsVal(m.Mo) - 1
        day == DigitsVal(m.D)
        hh == IF m.h # <<>> THEN DigitsVal(m.h) ELSE 0
        mm == IF m.mi # <<>> THEN DigitsVal(m.mi) ELSE 0
        ss == IF m.se # <<>> THEN DigitsVal(m.se) ELSE 0
        mss == IF m.ms # <<>> THEN DigitsVal(padEnd0(m.ms, 3)) ELSE 0
        sign == IF m.tz[1] = "-" THEN -1 ELSE 1
        toH == DigitsVal(SubSeq(m.tz, 2, 3))
        toM == DigitsVal(SubSeq(m.tz, 5, 6))
        offsetMin == sign * (toH * 60 + toM)
    IN  IF m.h = <<>> /\ m.tz = <<>>
        THEN DateUTC(year, month, day, 0, 0, 0, 0)
        ELSE IF m.tz = <<"Z">> \/ m.tz = <<>>
        THEN DateUTC(year, month, day, hh, mm, ss, mss)
        ELSE <<DateUTC(year, month, day, hh, mm, ss, mss)[1],
               DateUTC(year, month, day, hh, mm, ss, mss)[2] - offsetMin * 60000>>

TimeValueToDate(ts) == DateOrNull(DateAt(ts[1], ts[2]))

MatchToDate(m) == IF ~m.ok THEN Null ELSE TimeValueToDate(DateOfGroups(m))

parseIsoToDate(s) == MatchToDate(ISO_RE(s))

----------------------------------------------------------------------------
(* parseDataText *)

Str_X == <<"X">>
Str_Index == <<"I", "n", "d", "e", "x">>
Str_Value == <<"V", "a", "l", "u", "e">>

\* delimiter === null
NoDelimiter == ""

\* a thrown Error: its message, and the row number and quoted text it carries
Fail(msg, row, raw) ==
    [status |-> "error", error |-> msg, row |-> row, raw |-> raw,
     timeAxisName |-> <<>>, valueAxisName |-> <<>>, dataPoints |-> <<>>]

\* a returned SequenceData
Ok(timeAxisName, valueAxisName, dataPoints) ==
    [status |-> "ok", error |-> "", row |-> 0, raw |-> <<>>,
     timeAxisName |-> timeAxisName, valueAxisName |-> valueAxisName,
     dataPoints |-> dataPoints]

NoResult == Fail("", 0, <<>>)

\* DetectDelimiter with the across-lines check made before the per-line one
DetectDelimiter_AcrossFirst(lines) ==
    LET commaLines == Cardinality({i \in 1..Len(lines) : includes(lines[i], ",")})
        tabLines == Cardinality({i \in 1..Len(lines) : includes(lines[i], "\t")})
    IN  IF commaLines > 0 /\ tabLines > 0
        THEN [error |-> "Mixed delimiters across lines (some comma, some tab)",
              delimiter |-> NoDelimiter]
        ELSE [error |-> "",
              delimiter |-> IF commaLines > 0 THEN ","
                            ELSE IF tabLines > 0 THEN "\t" ELSE NoDelimiter]

\* the delimiter detection loop and the check after it: the error thrown
\* ("" when none) and the delimiter
DetectDelimiter(lines) ==
    LET hasComma(l) == includes(l, ",")
        hasTab(l) == includes(l, "\t")
        commaLines == Cardinality({i \in 1..Len(lines) : hasComma(lines[i])})
        tabLines == Cardinality({i \in 1..Len(lines) : hasTab(lines[i])})
    IN  IF \E i \in 1..Len(lines) : hasComma(lines[i]) /\ hasTab(lines[i])
        THEN [error |-> "Mixed delimiters in a single line (comma and tab)",
              delimiter |-> NoDelimiter]
        ELSE IF commaLines > 0 /\ tabLines > 0
        THEN [error |-> "Mixed delimiters across lines (some comma, some tab)",
              delimiter |-> NoDelimiter]
        ELSE [error |-> "",
              delimiter |-> IF commaLines > 0 THEN ","
                            ELSE IF tabLines > 0 THEN "\t" ELSE NoDelimiter]

Tokenize(lines, delimiter) ==
    [i \in 1..Len(lines) |->
        IF delimiter # NoDelimiter THEN split(lines[i], delimiter) ELSE <<lines[i]>>]

\* ColumnError reading the column count off the first row alone
ColumnError_FirstRowOnly(rows, delimiter) ==
    LET columns == Len(rows[1])
    IN  IF columns # 1 /\ columns # 2
        THEN "Only one or two columns are supported"
        ELSE IF delimiter # NoDelimiter /\ columns # 2
        THEN "A delimiter was detected, but the data does not have exactly two columns"
        ELSE ""

\* the column count checks: the error thrown, "" when none
ColumnError(rows, delimiter) ==
    LET colCounts == {Len(rows[i]) : i \in 1..Len(rows)}
        columns == Len(rows[1])
    IN  IF Cardinality(colCounts) > 1
        THEN "Inconsistent column counts across rows"
        ELSE IF columns # 1 /\ columns # 2
        THEN "Only one or two columns are supported"
        ELSE IF delimiter # NoDelimiter /\ columns # 2
        THEN "A delimiter was detected, but the data does not have exactly two columns"
        ELSE ""

\* isHeaderRow taking either column looking like data as enough for a data row
isHeaderRow_EitherColumn(rows, columns) ==
    IF columns = 1
    THEN ~isFiniteNumberString(rows[1][1])
    ELSE ~(isFiniteNumberString(rows[1][1]) \/ ~parseIsoToDate(rows[1][1]).null
           \/ isFiniteNumberString(rows[1][2]))

isHeaderRow(rows, columns) ==
    LET first == rows[1]
    IN  IF columns = 1
        THEN ~isFiniteNumberString(first[1])
        ELSE LET xLooksData == isFiniteNumberString(first[1])
                               \/ ~parseIsoToDate(first[1]).null
                 yLooksData == isFiniteNumberString(first[2])
             IN  ~(xLooksData /\ yLooksData)

\* a || b on strings: b when a is empty
OrElse(a, b) == IF a = <<>> THEN b ELSE a

\* AxisNames trimming the header tokens before use
AxisNames_Trimmed(rows, columns, header) ==
    IF header
    THEN IF columns = 1
         THEN [timeAxisName |-> Str_Index,
               valueAxisName |-> OrElse(trim(rows[1][1]), Str_Value)]
         ELSE [timeAxisName |-> OrElse(trim(rows[1][1]), Str_X),
               valueAxisName |-> OrElse(trim(rows[1][2]), Str_Value)]
    ELSE [timeAxisName |-> IF columns = 2 THEN Str_X ELSE Str_Index,
          valueAxisName |-> Str_Value]

AxisNames(rows, columns, header) ==
    IF header
    THEN IF columns = 1
         THEN [timeAxisName |-> Str_Index,
               valueAxisName |-> OrElse(rows[1][1], Str_Value)]
         ELSE [timeAxisName |-> OrElse(rows[1][1], Str_X),
               valueAxisName |-> OrElse(rows[1][2], Str_Value)]
    ELSE [timeAxisName |-> IF columns = 2 THEN Str_X ELSE Str_Index,
          valueAxisName |-> Str_Value]

\* xAreDates holding as soon as some row has a date
xAreDates_Some(dataRows, columns) ==
    IF columns = 2
    THEN \E i \in 1..Len(dataRows) : ~parseIsoToDate(dataRows[i][1]).null
    ELSE FALSE

xAreDates(dataRows, columns) ==
    IF columns = 2
    THEN \A i \in 1..Len(dataRows) : ~parseIsoToDate(dataRows[i][1]).null
    ELSE FALSE

\* the index of a data row as a number
IndexNumber(i) == Normalize(i, 0)

\* CoerceRow pushing Number(...) of the fields without the finite-number checks
CoerceRow_Unvalidated(r, i, startIdx, columns, dates) ==
    [error |-> "", row |-> 0, raw |-> <<>>,
     point |-> IF columns = 1 THEN <<IndexNumber(i), Number(trim(r[1]))>>
               ELSE IF dates /\ ~parseIsoToDate(trim(r[1])).null
               THEN <<parseIsoToDate(trim(r[1])), Number(trim(r[2]))>>
               ELSE <<Number(trim(r[1])), Number(trim(r[2]))>>]

\* one pass of a "build data points" loop for data row r at loop index i:
\* the error thrown there ("" when none) or the pair pushed
CoerceRow(r, i, startIdx, columns, dates) ==
    LET rowNo == startIdx + i + 1
        NoPoint == <<NaN, NaN>>
        Throw(msg, raw) == [error |-> msg, row |-> rowNo, raw |-> raw, point |-> NoPoint]
        Push(x, y) == [error |-> "", row |-> 0, raw |-> <<>>, point |-> <<x, y>>]
    IN  IF columns = 1
        THEN LET yRaw == trim(r[1])
                 y == Number(yRaw)
             IN  IF ~isFiniteNumberString(yRaw) THEN Throw("Invalid Y at row", yRaw)
                 ELSE IF ~NumberIsFinite(y) THEN Throw("Non-finite Y at row", <<>>)
                 ELSE Push(IndexNumber(i), y)
        ELSE LET xRaw == trim(r[1])
                 yRaw == trim(r[2])
                 d == parseIsoToDate(xRaw)
                 x == Number(xRaw)
                 y == Number(yRaw)
             IN  IF dates
                 THEN IF d.null THEN Throw("Invalid ISO date at row", <<>>)
                      ELSE IF ~isFiniteNumberString(yRaw)
                      THEN Throw("Invalid Y at row", yRaw)
                      ELSE IF ~NumberIsFinite(y) THEN Throw("Non-finite Y at row", <<>>)
                      ELSE Push(d, y)
                 ELSE IF ~isFiniteNumberString(xRaw) THEN Throw("Invalid X at row", xRaw)
                      ELSE IF ~isFiniteNumberString(yRaw)
                      THEN Throw("Invalid Y at row", yRaw)
                      ELSE IF ~NumberIsFinite(x) \/ ~NumberIsFinite(y)
                      THEN Throw("Non-finite number at row", <<>>)
                      ELSE Push(x, y)

\* the outcome of the loop whose passes came out as out: the first pass that
\* throws ends the parse, otherwise the pairs pushed are returned
Assemble(out, names) ==
    LET bad == {k \in 1..Len(out) : out[k].error # ""}
        first == CHOOSE j \in bad : \A j2 \in bad : j <= j2
    IN  IF bad # {}
        THEN Fail(out[first].error, out[first].row, out[first].raw)
        ELSE Ok(names.timeAxisName, names.valueAxisName,
                [k \in 1..Len(out) |-> out[k].point])

\* BuildPoints deciding row by row whether x is a date
BuildPoints_PerRow(dataRows, startIdx, columns, dates, names) ==
    Assemble([k \in 1..Len(dataRows) |->
                 CoerceRow(dataRows[k], k - 1, startIdx, columns,
                           columns = 2 /\ ~parseIsoToDate(dataRows[k][1]).null)],
             names)

\* BuildPoints with the loops starting at i = 1
BuildPoints_FromOne(dataRows, startIdx, columns, dates, names) ==
    Assemble([k \in 1..(Len(dataRows) - 1) |->
                 CoerceRow(dataRows[k + 1], k, startIdx, columns, dates)],
             names)

\* the loops over dataRows
BuildPoints(dataRows, startIdx, columns, dates, names) ==
    Assemble([k \in 1..Len(dataRows) |->
                 CoerceRow(dataRows[k], k - 1, startIdx, columns, dates)],
             names)

\* parseDataText from "Gather data strings" on
ParseData(dataRows, startIdx, columns, names) ==
    IF Len(dataRows) = 0
    THEN Fail("No data rows after header detection", 0, <<>>)
    ELSE IF \E k \in 1..Len(dataRows) : Len(dataRows[k]) # columns
    THEN Fail("Inconsistent column count inside data rows", 0, <<>>)
    ELSE BuildPoints(dataRows, startIdx, columns, xAreDates(dataRows, columns), names)

\* parseDataText from the header decision on
ParseTable(rows, columns, header) ==
    ParseData(SubSeq(rows, (IF header THEN 1 ELSE 0) + 1, Len(rows)),
              IF header THEN 1 ELSE 0, columns, AxisNames(rows, columns, header))

\* parseDataText from the column count checks on
ParseRows(rows, delimiter) ==
    IF ColumnError(rows, delimiter) # ""
    THEN Fail(ColumnError(rows, delimiter), 0, <<>>)
    ELSE ParseTable(rows, Len(rows[1]), isHeaderRow(rows, Len(rows[1])))

\* parseDataText from tokenization on
ParseDetected(lines, det) ==
    IF det.error # "" THEN Fail(det.error, 0, <<>>)
    ELSE ParseRows(Tokenize(lines, det.delimiter), det.delimiter)

ParseLines(lines) ==
    IF Len(lines) = 0 THEN Fail("No data lines found", 0, <<>>)
    ELSE ParseDetected(lines, DetectDelimiter(lines))

parseDataText(t) == ParseLines(Lines(t))

----------------------------------------------------------------------------
(* The caller: a text is put together line by line and handed to the parser *)

MaxLines == 3

NoFields == [kind |-> "text"]

\* one more line is written to the text, after the line break eol
AddLine(l, eol, f) ==
    /\ pc = "input"
    /\ Len(fields) < MaxLines
    /\ text' = IF Len(fields) = 0 THEN l ELSE text \o eol \o l
    /\ fields' = Append(fields, f)
    /\ UNCHANGED <<pc, result>>

\* App.handleFile: reader.onload calls parseDataText(text)
Parse ==
    /\ pc = "input"
    /\ result' = parseDataText(text)
    /\ pc' = "done"
    /\ UNCHANGED <<text, fields>>

Init ==
    /\ text = <<>>
    /\ fields = <<>>
    /\ pc = "input"
    /\ result = NoResult

----------------------------------------------------------------------------
(* Delimiter detection and column shape *)

\* the lines written while checking delimiters and shapes:
\* 1   a   1,2   a,1   1<TAB>2   1,2<TAB>3   1,2,3   (empty)   <TAB>1<SPACE>
ShapeLines ==
    { <<"1">>, <<"a">>, <<"1", ",", "2">>, <<"a", ",", "1">>,
      <<"1", "\t", "2">>, <<"1", ",", "2", "\t", "3">>,
      <<"1", ",", "2", ",", "3">>, <<>>, <<"\t", "1", " ">> }

ShapeEols == { <<"\n">>, <<"\r", "\n">>, <<"\r">> }

NextShape ==
    \/ \E l \in ShapeLines, eol \in ShapeEols : AddLine(l, eol, NoFields)
    \/ Parse

SpecShape == Init /\ [][NextShape]_vars

Parsed == pc = "done"

AnyLine(ls, c) == \E i \in 1..Len(ls) : includes(ls[i], c)

MixedInLine(ls) == \E i \in 1..Len(ls) : includes(ls[i], ",") /\ includes(ls[i], "\t")

\* the delimiter the specification names for lines without a mix
ExpectedDelimiter(ls) ==
    IF AnyLine(ls, ",") THEN "," ELSE IF AnyLine(ls, "\t") THEN "\t" ELSE NoDelimiter

\* C1: over the trimmed non-blank lines, a line holding both a comma and a tab
\* fails the parse with the mixed-in-a-line error; otherwise commas in some
\* line and tabs in another fail it with the mixed-across-lines error;
\* otherwise neither error is raised and the delimiter is comma if any line
\* has a comma, tab if any has a tab, none if no line has either.
C1_DelimiterDetection ==
    Parsed /\ Lines(text) # <<>> =>
        LET ls == Lines(text)
        IN  IF MixedInLine(ls)
            THEN result.error = "Mixed delimiters in a single line (comma and tab)"
            ELSE IF AnyLine(ls, ",") /\ AnyLine(ls, "\t")
            THEN result.error = "Mixed delimiters across lines (some comma, some tab)"
            ELSE /\ result.error \notin
                        {"Mixed delimiters in a single line (comma and tab)",
                         "Mixed delimiters across lines (some comma, some tab)"}
                 /\ DetectDelimiter(ls).error = ""
                 /\ DetectDelimiter(ls).delimiter = ExpectedDelimiter(ls)

\* C1 witness: three lines, the first with a comma, the second with a tab and
\* the third with both, and the parse failed on the line that holds both
C1_Witness ==
    /\ Parsed
    /\ Len(Lines(text)) = 3
    /\ includes(Lines(text)[1], ",") /\ ~includes(Lines(text)[1], "\t")
    /\ includes(Lines(text)[2], "\t") /\ ~includes(Lines(text)[2], ",")
    /\ MixedInLine(Lines(text))
    /\ result.error = "Mixed delimiters in a single line (comma and tab)"

\* the number of tokens splitting l by d gives
TokenCount(l, d) ==
    IF d = NoDelimiter THEN 1 ELSE 1 + Cardinality({i \in 1..Len(l) : l[i] = d})

\* the lines were not refused by delimiter detection
DelimiterFound(ls) ==
    ls # <<>> /\ ~MixedInLine(ls) /\ ~(AnyLine(ls, ",") /\ AnyLine(ls, "\t"))

\* C2: once a delimiter is settled, two lines with different token counts
\* fail the parse with the inconsistent-column-count error; otherwise a
\* common count other than 1 and 2 fails it with the unsupported-column-count
\* error; every input passing both has exactly 2 columns with a delimiter
\* and exactly 1 without, and the delimiter/column mismatch is not raised.
C2_ShapeValidation ==
    Parsed /\ DelimiterFound(Lines(text)) =>
        LET ls == Lines(text)
            d == ExpectedDelimiter(ls)
            counts == {TokenCount(ls[i], d) : i \in 1..Len(ls)}
        IN  IF Cardinality(counts) > 1
            THEN result.error = "Inconsistent column counts across rows"
            ELSE IF counts \cap {1, 2} = {}
            THEN result.error = "Only one or two columns are supported"
            ELSE /\ counts = (IF d = NoDelimiter THEN {1} ELSE {2})
                 /\ \A i \in 1..Len(ls) :
                        Len(Tokenize(ls, DetectDelimiter(ls).delimiter)[i])
                            = (IF d = NoDelimiter THEN 1 ELSE 2)
                 /\ result.error \notin
                        {"Inconsistent column counts across rows",
                         "Only one or two columns are supported",
                         "A delimiter was detected, but the data does not have exactly two columns"}

\* C2 witness: the single line 1,2,3 was refused as an unsupported column count
C2_Witness ==
    /\ Parsed
    /\ Lines(text) = << <<"1", ",", "2", ",", "3">> >>
    /\ result.error = "Only one or two columns are supported"

\* a second C2 case reached: a three-token line beside a two-token line
C2_WitnessInconsistent ==
    /\ Parsed
    /\ DelimiterFound(Lines(text))
    /\ \E i, j \in 1..Len(Lines(text)) :
           TokenCount(Lines(text)[i], ",") = 3 /\ TokenCount(Lines(text)[j], ",") = 2
    /\ result.error = "Inconsistent column counts across rows"

----------------------------------------------------------------------------
(* Header detection, axis labels and the data region *)

\* the lines written while checking the header decision:
\* 7   20   t   1e309   t,v   1,2   2024-01-01,3   ,5   t,   1,<SPACE>2   1,v   x,2
\* 2024-01-01,v
HeaderLines ==
    { <<"7">>,
      <<"2", "0">>,
      <<"t">>,
      <<"1", "e", "3", "0", "9">>,
      <<"t", ",", "v">>,
      <<"1", ",", "2">>,
      <<"2", "0", "2", "4", "-", "0", "1", "-", "0", "1", ",", "3">>,
      <<",", "5">>,
      <<"t", ",">>,
      <<"1", ",", " ", "2">>,
      <<"1", ",", "v">>,
      <<"x", ",", "2">>,
      <<"2", "0", "2", "4", "-", "0", "1", "-", "0", "1", ",", "v">> }

NextHeader ==
    \/ \E l \in HeaderLines : AddLine(l, <<"\n">>, NoFields)
    \/ Parse

SpecHeader == Init /\ [][NextHeader]_vars

\* the parse got past delimiter detection and the column count checks
ShapeAccepted ==
    /\ Parsed
    /\ result.error \notin
           {"No data lines found",
            "Mixed delimiters in a single line (comma and tab)",
            "Mixed delimiters across lines (some comma, some tab)",
            "Inconsistent column counts across rows",
            "Only one or two columns are supported",
            "A delimiter was detected, but the data does not have exactly two columns"}

\* the rows of the text, by the delimiter the specification names
Rows == Tokenize(Lines(text), ExpectedDelimiter(Lines(text)))

Columns == Len(Rows[1])

\* s matches the ISO date/time pattern
IsoString(s) == ISO_RE(s).ok

\* the header rule of the specification, read off the first row
HeaderRule(first) ==
    IF Len(first) = 1
    THEN ~isFiniteNumberString(first[1])
    ELSE ~((isFiniteNumberString(first[1]) \/ IsoString(first[1]))
           /\ isFiniteNumberString(first[2]))

HeaderExpected == HeaderRule(Rows[1])

FirstDataRow == IF HeaderExpected THEN 2 ELSE 1

\* C3: row 1 is a header exactly as the rule on its own tokens says (one
\* column: not a finite-number string; two columns: unless the first token is
\* a finite-number or ISO date/time string and the second a finite-number
\* string); no later row changes the decision; the data region is rows 2..n
\* with a header and rows 1..n without.
C3_HeaderFromRowOne ==
    ShapeAccepted =>
        /\ isHeaderRow(Rows, Columns) = HeaderExpected
        /\ isHeaderRow(<<Rows[1]>>, Columns) = isHeaderRow(Rows, Columns)
        /\ result.status = "ok" =>
               Len(result.dataPoints) = Len(Rows) - (FirstDataRow - 1)
        /\ Len(Rows) = 1 /\ HeaderExpected <=>
               result.error = "No data rows after header detection"
        /\ result.row > 0 => result.row >= FirstDataRow

\* C3 witness: a first row with a date and a text token was taken as the
\* header although the rows after it are data, and two data rows remain
C3_Witness ==
    /\ ShapeAccepted
    /\ Columns = 2
    /\ IsoString(Rows[1][1]) /\ ~isFiniteNumberString(Rows[1][2])
    /\ HeaderExpected
    /\ Len(Rows) = 3
    /\ result.status = "ok"
    /\ Len(result.dataPoints) = 2

\* C4: in a successful parse a two-column header gives its literal first and
\* second tokens as timeAxisName and valueAxisName, an empty token giving "X"
\* and "Value"; a one-column header gives its token as valueAxisName and
\* "Index" as timeAxisName; without a header timeAxisName is "Index" for one
\* column and "X" for two, and valueAxisName is "Value".
C4_AxisLabels ==
    ShapeAccepted /\ result.status = "ok" =>
        IF HeaderExpected /\ Columns = 2
        THEN /\ result.timeAxisName =
                    (IF Rows[1][1] = <<>> THEN <<"X">> ELSE Rows[1][1])
             /\ result.valueAxisName =
                    (IF Rows[1][2] = <<>> THEN <<"V", "a", "l", "u", "e">> ELSE Rows[1][2])
        ELSE IF HeaderExpected
        THEN /\ result.timeAxisName = <<"I", "n", "d", "e", "x">>
             /\ result.valueAxisName = Rows[1][1]
        ELSE /\ result.timeAxisName =
                    (IF Columns = 1 THEN <<"I", "n", "d", "e", "x">> ELSE <<"X">>)
             /\ result.valueAxisName = <<"V", "a", "l", "u", "e">>

\* C4 witness: a header whose second token keeps its leading space gave both
\* labels literally
C4_Witness ==
    /\ ShapeAccepted
    /\ result.status = "ok"
    /\ Rows[1] = << <<"1">>, <<" ", "2">> >>
    /\ result.timeAxisName = <<"1">>
    /\ result.valueAxisName = <<" ", "2">>

\* a second C4 case reached: an empty first header token fell back to "X"
C4_WitnessEmptyToken ==
    /\ ShapeAccepted
    /\ result.status = "ok"
    /\ Columns = 2 /\ Rows[1][1] = <<>>
    /\ result.timeAxisName = <<"X">>

\* the last token of row k of the data region, trimmed
DataToken(k, col) == trim(Rows[FirstDataRow + k - 1][col])

\* C10: a successful parse has one pair per row of the data region (the
\* non-blank lines, less the header), the i-th pair built from the i-th row of
\* the region, and for one column the x values are 0, 1, ..., n-1 counted from
\* the first data row.
C10_RowOrderAndCount ==
    ShapeAccepted /\ result.status = "ok" =>
        /\ Len(result.dataPoints) = Len(Lines(text)) - (FirstDataRow - 1)
        /\ \A k \in 1..Len(result.dataPoints) :
               /\ result.dataPoints[k][2] = Number(DataToken(k, Columns))
               /\ Columns = 1 =>
                      result.dataPoints[k][1] = [cls |-> "finite", m |-> k - 1, e |-> 0]
               /\ Columns = 2 =>
                      result.dataPoints[k][1] \in
                          {Number(DataToken(k, 1)), parseIsoToDate(DataToken(k, 1))}

\* C10 witness: a one-column text with a header and two data rows was
\* numbered 0, 1 from the first data row
C10_Witness ==
    /\ ShapeAccepted
    /\ result.status = "ok"
    /\ Columns = 1 /\ HeaderExpected
    /\ Len(result.dataPoints) = 2
    /\ result.dataPoints[1][1] = [cls |-> "finite", m |-> 0, e |-> 0]
    /\ result.dataPoints[2][1] = [cls |-> "finite", m |-> 1, e |-> 0]
    /\ result.dataPoints[1][2] # result.dataPoints[2][2]

----------------------------------------------------------------------------
(* The type of the X column and the coercion of the rows *)

\* the lines written while checking the rows:
\* h,v   2024-01-01,1   2024-01-02T10:00Z,2   abc,3   5,6   5,zz
\* 2024-01-01,zz   7,NaN   NaN,7   8,Infinity   1e309,1   2024-01-01<SPACE>,4
\* NaN   9
RowLines ==
    { <<"h", ",", "v">>,
      <<"2", "0", "2", "4", "-", "0", "1", "-", "0", "1", ",", "1">>,
      <<"2", "0", "2", "4", "-", "0", "1", "-", "0", "2", "T", "1", "0", ":", "0", "0", "Z", ",", "2">>,
      <<"a", "b", "c", ",", "3">>,
      <<"5", ",", "6">>,
      <<"5", ",", "z", "z">>,
      <<"2", "0", "2", "4", "-", "0", "1", "-", "0", "1", ",", "z", "z">>,
      <<"7", ",", "N", "a", "N">>,
      <<"N", "a", "N", ",", "7">>,
      <<"8", ",", "I", "n", "f", "i", "n", "i", "t", "y">>,
      <<"1", "e", "3", "0", "9", ",", "1">>,
      <<"2", "0", "2", "4", "-", "0", "1", "-", "0", "1", " ", ",", "4">>,
      <<"N", "a", "N">>,
      <<"9">> }

NextRows ==
    \/ \E l \in RowLines : AddLine(l, <<"\n">>, NoFields)
    \/ Parse

SpecRows == Init /\ [][NextRows]_vars

IsDate(x) == "day" \in DOMAIN x

IsFiniteNumber(x) == "cls" \in DOMAIN x /\ x.cls = "finite"

\* the rows of the data region, as positions in Rows
RegionOf(rows) == (IF HeaderRule(rows[1]) THEN 2 ELSE 1)..Len(rows)

DataRegion == RegionOf(Rows)

\* the rows of the region whose first token matches the ISO date/time pattern
DateRows(rows, region) == {k \in region : IsoString(rows[k][1])}

\* every first token of the data region matches the ISO date/time pattern
AllDates == DateRows(Rows, DataRegion) = DataRegion

\* C5: a successful two-column result has instants for all its x values if
\* and only if every data row's first token matches the ISO date/time
\* pattern, and finite numbers for all of them otherwise; a successful
\* one-column result has the indices; instants never stand beside numbers.
C5_XTypeAllOrNothing ==
    ShapeAccepted /\ result.status = "ok" =>
        LET xs == [k \in 1..Len(result.dataPoints) |-> result.dataPoints[k][1]]
        IN  /\ Columns = 2 /\ AllDates => \A k \in 1..Len(xs) : IsDate(xs[k])
            /\ Columns = 2 /\ ~AllDates => \A k \in 1..Len(xs) : IsFiniteNumber(xs[k])
            /\ Columns = 1 =>
                   \A k \in 1..Len(xs) : xs[k] = [cls |-> "finite", m |-> k - 1, e |-> 0]
            /\ \A j, k \in 1..Len(xs) : IsDate(xs[j]) = IsDate(xs[k])

\* C5 witness: a header and two date rows gave two instants
C5_Witness ==
    /\ ShapeAccepted
    /\ result.status = "ok"
    /\ Columns = 2 /\ AllDates /\ HeaderExpected
    /\ Len(result.dataPoints) = 2
    /\ IsDate(result.dataPoints[1][1]) /\ IsDate(result.dataPoints[2][1])
    /\ result.dataPoints[1][1] # result.dataPoints[2][1]

\* a second C5 case reached: a numeric X column
C5_WitnessNumeric ==
    /\ ShapeAccepted
    /\ result.status = "ok"
    /\ Columns = 2 /\ ~AllDates
    /\ Len(result.dataPoints) >= 2
    /\ \A k \in 1..Len(result.dataPoints) : IsFiniteNumber(result.dataPoints[k][1])

\* a date-like column with a single row that is not a date: two columns, at
\* least one data row whose first token matches the ISO pattern and exactly
\* one whose first token does not
SingleOut(region, dates) == dates # {} /\ Cardinality(region \ dates) = 1

OneNonDateRow ==
    /\ ShapeAccepted
    /\ Columns = 2
    /\ SingleOut(DataRegion, DateRows(Rows, DataRegion))

TheNonDateRow == CHOOSE k \in DataRegion \ DateRows(Rows, DataRegion) : TRUE

\* C6 as stated: with a single non-date row in a date-like column the parse
\* fails with InvalidX naming that row's number and text.
C6_FailsOnTheNonDateRow ==
    OneNonDateRow =>
        /\ result.error = "Invalid X at row"
        /\ result.row = TheNonDateRow
        /\ result.raw = trim(Rows[TheNonDateRow][1])

\* the rows of the region with a field that is not a finite-number string
BadNumberRows(rows, region) ==
    {k \in region : \/ ~isFiniteNumberString(trim(rows[k][1]))
                    \/ ~isFiniteNumberString(trim(rows[k][2]))}

Least(S) == CHOOSE k \in S : \A j \in S : k <= j

FirstBadNumberRow == Least(BadNumberRows(Rows, DataRegion))

\* the parse failed at row k: on its X when that is no finite-number string,
\* on its Y otherwise
FailedAt(row, k) ==
    /\ result.status = "error"
    /\ result.row = k
    /\ IF ~isFiniteNumberString(trim(row[1]))
       THEN result.error = "Invalid X at row" /\ result.raw = trim(row[1])
       ELSE result.error = "Invalid Y at row" /\ result.raw = trim(row[2])

\* C6 amended: with a single non-date row in a date-like column the X column
\* is read as numeric and the parse fails on the first data row, in row order,
\* holding a field that is not a finite-number string: InvalidX with that
\* row's number and X text when its X is such a field (as every date is),
\* InvalidY with its number and Y text otherwise.
C6_FailsOnFirstNonNumericRow ==
    OneNonDateRow => FailedAt(Rows[FirstBadNumberRow], FirstBadNumberRow)

\* C6 witness: the non-date row is the last of three data rows and the error
\* names the first date row
C6_Witness ==
    /\ OneNonDateRow
    /\ ~HeaderExpected
    /\ TheNonDateRow = 3
    /\ result.error = "Invalid X at row"
    /\ result.row = 1
    /\ IsoString(result.raw)

Str_NaN == <<"N", "a", "N">>
Str_Infinity == <<"I", "n", "f", "i", "n", "i", "t", "y">>

NonNumberText(s) == trim(s) \in {Str_NaN, Str_Infinity}

\* C7 as stated: the text NaN or Infinity in the Y field of any row, or in the
\* X field of any row of a two-column input, fails the parse.
C7_NonNumberTextFails ==
    ShapeAccepted /\ (\E k \in 1..Len(Rows), c \in 1..Columns : NonNumberText(Rows[k][c]))
        => result.status = "error"

\* C7 amended: the text NaN or Infinity in a field of a row of the data
\* region fails the parse with InvalidX or InvalidY (in a first row it makes
\* that row the header); and no successful result holds a NaN or an infinity.
C7_NonNumberTextInDataFails ==
    ShapeAccepted =>
        /\ (\E k \in DataRegion, c \in 1..Columns : NonNumberText(Rows[k][c]))
               => /\ result.status = "error"
                  /\ result.error \in {"Invalid X at row", "Invalid Y at row"}
        /\ result.status = "ok" =>
               \A k \in 1..Len(result.dataPoints) :
                   /\ IsFiniteNumber(result.dataPoints[k][2])
                   /\ IsDate(result.dataPoints[k][1])
                          \/ IsFiniteNumber(result.dataPoints[k][1])

\* C7 witness: Infinity as the Y of the second data row, after a good row,
\* failed the parse with InvalidY
C7_Witness ==
    /\ ShapeAccepted
    /\ Columns = 2 /\ ~HeaderExpected
    /\ Len(Rows) >= 2
    /\ trim(Rows[2][2]) = Str_Infinity
    /\ result.error = "Invalid Y at row"
    /\ result.row = 2
    /\ result.raw = Str_Infinity

----------------------------------------------------------------------------
(* The ISO date/time classifier *)

DigitChar(d) == <<"0", "1", "2", "3", "4", "5", "6", "7", "8", "9">>[d + 1]

Pad2(n) == <<DigitChar(n \div 10), DigitChar(n % 10)>>

Pad4(n) == Pad2(n \div 100) \o Pad2(n % 100)

NoClock == [form |-> "none", sep |-> "T", hh |-> 0, mi |-> 0, ss |-> 0, frac |-> <<>>]

\* the times of day written: none, T10:00, <SPACE>23:30:00.5, and three that
\* no clock shows: T24:00:00, T08:60, T08:00:61
Clocks ==
    { NoClock,
      [form |-> "hm", sep |-> "T", hh |-> 10, mi |-> 0, ss |-> 0, frac |-> <<>>],
      [form |-> "hms", sep |-> " ", hh |-> 23, mi |-> 30, ss |-> 0, frac |-> <<"5">>],
      [form |-> "hms", sep |-> "T", hh |-> 24, mi |-> 0, ss |-> 0, frac |-> <<>>],
      [form |-> "hm", sep |-> "T", hh |-> 8, mi |-> 60, ss |-> 0, frac |-> <<>>],
      [form |-> "hms", sep |-> "T", hh |-> 8, mi |-> 0, ss |-> 61, frac |-> <<>>] }

NoZone == [form |-> "none", sign |-> 1, zh |-> 0, zm |-> 0]

\* the zone designators written: none, Z, +02:00, -05:30
Zones ==
    { NoZone,
      [form |-> "Z", sign |-> 1, zh |-> 0, zm |-> 0],
      [form |-> "offset", sign |-> 1, zh |-> 2, zm |-> 0],
      [form |-> "offset", sign |-> -1, zh |-> 5, zm |-> 30] }

\* the dates written: years 0050, 2023 and 2024 with the month and day
\* 01-01, 02-29, 02-30, 12-31, 13-01 and 01-32
IsoFields ==
    { [kind |-> "iso", year |-> y, month |-> md[1], day |-> md[2],
       clock |-> c, zone |-> z] :
          y \in {50, 2023, 2024},
          md \in { <<1, 1>>, <<2, 29>>, <<2, 30>>, <<12, 31>>, <<13, 1>>, <<1, 32>> },
          c \in Clocks,
          z \in Zones }

FormatClock(c) ==
    IF c.form = "none" THEN <<>>
    ELSE <<c.sep>> \o Pad2(c.hh) \o <<":">> \o Pad2(c.mi)
         \o (IF c.form = "hms" THEN <<":">> \o Pad2(c.ss) ELSE <<>>)
         \o (IF c.frac # <<>> THEN <<".">> \o c.frac ELSE <<>>)

FormatZone(z) ==
    IF z.form = "none" THEN <<>>
    ELSE IF z.form = "Z" THEN <<"Z">>
    ELSE <<IF z.sign = 1 THEN "+" ELSE "-">> \o Pad2(z.zh) \o <<":">> \o Pad2(z.zm)

\* the text YYYY-MM-DD[ time][ zone] of the fields f
FormatIso(f) ==
    Pad4(f.year) \o <<"-">> \o Pad2(f.month) \o <<"-">> \o Pad2(f.day)
        \o FormatClock(f.clock) \o FormatZone(f.zone)

\* a one-line text is written: the date/time of f as X and 1 as Y
AddIsoLine(f) ==
    /\ Len(fields) = 0
    /\ f.clock.form = "none" => f.zone.form = "none"
    /\ AddLine(FormatIso(f) \o <<",", "1">>, <<"\n">>, f)

NextIso ==
    \/ \E f \in IsoFields : AddIsoLine(f)
    \/ Parse

SpecIso == Init /\ [][NextIso]_vars

DaysInMonth(y, m) ==
    IF m = 2 THEN (IF InLeapYear(y) THEN 29 ELSE 28)
    ELSE IF m \in {4, 6, 9, 11} THEN 30 ELSE 31

\* f names a day of the calendar and a time of the clock
ValidFields(f) ==
    /\ f.month \in 1..12
    /\ f.day \in 1..DaysInMonth(f.year, f.month)
    /\ f.clock.hh <= 23 /\ f.clock.mi <= 59 /\ f.clock.ss <= 59

\* the milliseconds of a fraction of a second of one to three digits
FracMs(frac) == IF frac = <<>> THEN 0 ELSE DigitsVal(frac) * Pow10(3 - Len(frac))

\* the instant f names: its wall clock on its day of the proleptic Gregorian
\* calendar, less the signed offset of its zone
InstantOf(f) ==
    DateAt(DayFromYear(f.year) + MonthStart(f.year, f.month - 1) + f.day - 1,
           f.clock.hh * 3600000 + f.clock.mi * 60000 + f.clock.ss * 1000
               + FracMs(f.clock.frac)
               - f.zone.sign * (f.zone.zh * 60 + f.zone.zm) * 60000)

\* an ISO line was written and parsed
IsoParsed == Parsed /\ Len(fields) = 1 /\ fields[1].kind = "iso"

\* C8: a string of the ISO shape that names no day of the calendar or no time
\* of the clock gives no instant: parseIsoToDate returns null for it, so it is
\* not date-like for header detection and the X column is no date column.
C8_InvalidCalendarRejected ==
    IsoParsed /\ ~ValidFields(fields[1]) =>
        /\ parseIsoToDate(FormatIso(fields[1])).null
        /\ ~(result.status = "ok" /\ IsDate(result.dataPoints[1][1]))

\* C9: a date-only string is midnight UTC of its date, a time without a zone
\* or with Z is that wall clock in UTC, and an offset is taken off the wall
\* clock, so that strings naming one absolute time give equal instants.
C9_InstantOfIsoString ==
    IsoParsed /\ ValidFields(fields[1]) =>
        /\ result.status = "ok"
        /\ result.dataPoints[1][1] = InstantOf(fields[1])

\* the C9 cases from year 0100 on are as the claim states them (the offset
\* example 2024-..T10:00+02:00 = 08:00Z among them)
C9_HoldsFromYear100 ==
    IsoParsed /\ ValidFields(fields[1]) /\ fields[1].year >= 100 =>
        /\ result.status = "ok"
        /\ result.dataPoints[1][1] = InstantOf(fields[1])

----------------------------------------------------------------------------
(* Header detection against row coercion *)

\* what the coercion loop does with row as the only row of a data region
CoercedAlone(row) == CoerceRow(row, 0, 0, 2, xAreDates(<<row>>, 2))

\* row coercion refuses the row with InvalidX or InvalidY
CoercionRejects(row) ==
    CoercedAlone(row).error \in {"Invalid X at row", "Invalid Y at row"}

\* C11: for two-column input, a row 1 taken as the header is a row that row
\* coercion would refuse with InvalidX or InvalidY in the data region; so no
\* row that coercion accepts as data (1,<SPACE>2 among them) is consumed as
\* the header and left out of dataPoints.
C11_HeaderOnlyIfCoercionRejects ==
    ShapeAccepted /\ Columns = 2 =>
        /\ isHeaderRow(Rows, Columns) => CoercionRejects(Rows[1])
        /\ ~CoercionRejects(Rows[1]) /\ result.status = "ok" =>
               /\ Len(result.dataPoints) = Len(Rows)
               /\ result.dataPoints[1] = CoercedAlone(Rows[1]).point

\* the C11 cases whose row 1 tokens carry no white space around them are as
\* the claim states them
C11_HoldsForTrimmedTokens ==
    ShapeAccepted /\ Columns = 2
        /\ trim(Rows[1][1]) = Rows[1][1] /\ trim(Rows[1][2]) = Rows[1][2] =>
            /\ isHeaderRow(Rows, Columns) => CoercionRejects(Rows[1])
            /\ ~CoercionRejects(Rows[1]) /\ result.status = "ok" =>
                   Len(result.dataPoints) = Len(Rows)

====
